---- MODULE Spec2Model ----
(***************************************************************************)
(* LTI 1.3 tool on FastAPI: the launch-data stores (SimpleCache,           *)
(* FastAPISessionService, FastAPIRedisSessionService) and the HTTP         *)
(* handlers of examples/fastapi_example (api/main.py, main_production.py). *)
(* The protocol engine the handlers call (OIDC login start, launch         *)
(* validate, from_cache) is not part of the sources at hand; it is         *)
(* modelled from sections 4.2 and 4.3 of the specification and its         *)
(* definitions are marked as such.                                         *)
(***************************************************************************)
EXTENDS Naturals, Integers, Sequences, FiniteSets, TLC

VARIABLES
    app,          \* which program runs (one of Apps); fixed for a behaviour
    now,          \* time.time(), in seconds
    keys_loaded,  \* module-level keys_loaded of the application
    public_key,   \* the tool's public key the application was started with
    cache,        \* the SimpleCache: [_cache, _expires]
    shared_cache, \* module-level _shared_cache of cache.py: <<>> (None) or <<a SimpleCache>>
    svc,          \* the FastAPISessionService of the request being handled
    redis,        \* the Redis server behind FastAPIRedisSessionService
    nextState,    \* number of state/nonce pairs minted so far
    nextLaunch,   \* number of launch ids generated so far
    stored,       \* history: the last write under each key of the store
    inflight,     \* launch requests between their store steps (SpecConc only)
    ctor,         \* constructors of FastAPICacheDataStorage under way (SpecCtor only)
    web,          \* the HTTP request being served, its cookie service, the last response
    lastResp      \* the last event: the response of the last request

vars == <<app, now, keys_loaded, public_key, cache, shared_cache, svc, redis, nextState, nextLaunch,
          stored, inflight, ctor, web, lastResp>>

(***************************************************************************)
(* Bounds of the model.                                                    *)
(***************************************************************************)
NumStates == 2        \* login attempts (state/nonce pairs) per behaviour
NumLaunchIds == 2     \* validated launches per behaviour
MaxTime == 602        \* last instant of the clock
NumRequests == 2      \* concurrent launch requests (SpecConc)

\* the clock advances by one of these amounts (the instants requests arrive at)
TickSteps == IF app \in {"api", "prod", "cache"} THEN {301}
             ELSE IF app \in {"cookie", "request"} THEN {}
             ELSE {300, 301}

Apps == {"api", "prod", "session", "redis", "cache", "cookie", "request"}

(***************************************************************************)
(* Python values.                                                          *)
(***************************************************************************)
None == [kind |-> "None"]
EmptyDict == [k \in {} |-> None]

Pop(d, key) == [k \in (DOMAIN d) \ {key} |-> d[k]]
Put(d, key, value) == [k \in (DOMAIN d) \cup {key} |-> IF k = key THEN value ELSE d[k]]
DictGet(d, key) == IF key \in DOMAIN d THEN d[key] ELSE None

\* An optional int argument: <<>> is Python's None, <<n>> the int n.
NoTimeout == <<>>
Secs(n) == <<n>>
\* Python truthiness of a timeout argument: None and 0 are falsy
Truthy(timeout) == Len(timeout) > 0 /\ timeout[1] # 0

(***************************************************************************)
(* SimpleCache (launch_data_storage/cache.py; api/main.py holds a copy).   *)
(***************************************************************************)
SimpleCache_init == [_cache |-> EmptyDict, _expires |-> EmptyDict]

\* a SimpleCache whose entries never expire
SimpleCache_expired_never(c, key, t) == FALSE

\* the test of get: the key has an expiration and it lies in the past
SimpleCache_expired(c, key, t) == key \in DOMAIN c._expires /\ t > c._expires[key]

\* get: the value returned
SimpleCache_get(c, key, t) ==
    IF SimpleCache_expired(c, key, t) THEN None ELSE DictGet(c._cache, key)

\* a SimpleCache whose get empties the cache
SimpleCache_get_effect_clears(c, key, t) == [_cache |-> EmptyDict, _expires |-> EmptyDict]

\* a SimpleCache whose get drops the expired value and keeps its expiration
SimpleCache_get_effect_value_only(c, key, t) ==
    IF SimpleCache_expired(c, key, t)
    THEN [_cache |-> Pop(c._cache, key), _expires |-> c._expires]
    ELSE c

\* get: the cache it leaves
SimpleCache_get_effect(c, key, t) ==
    IF SimpleCache_expired(c, key, t)
    THEN [_cache |-> Pop(c._cache, key), _expires |-> Pop(c._expires, key)]
    ELSE c

\* a SimpleCache that takes the timeout for the instant of expiry
SimpleCache_set_absolute(c, key, value, timeout, t) ==
    [_cache |-> Put(c._cache, key, value),
     _expires |-> IF Truthy(timeout) THEN Put(c._expires, key, timeout[1])
                  ELSE Pop(c._expires, key)]

\* a SimpleCache whose set without timeout leaves an earlier expiration
SimpleCache_set_keeps_expiry(c, key, value, timeout, t) ==
    [_cache |-> Put(c._cache, key, value),
     _expires |-> IF Truthy(timeout) THEN Put(c._expires, key, t + timeout[1])
                  ELSE c._expires]

SimpleCache_set(c, key, value, timeout, t) ==
    [_cache |-> Put(c._cache, key, value),
     _expires |-> IF Truthy(timeout) THEN Put(c._expires, key, t + timeout[1])
                  ELSE Pop(c._expires, key)]

\* a SimpleCache whose delete leaves the entry in place
SimpleCache_delete_noop(c, key) == c

\* a SimpleCache whose delete forgets the expiration and keeps the value
SimpleCache_delete_expiry_only(c, key) ==
    [_cache |-> c._cache, _expires |-> Pop(c._expires, key)]

\* a SimpleCache whose delete removes every entry
SimpleCache_delete_all(c, key) == [_cache |-> EmptyDict, _expires |-> EmptyDict]

SimpleCache_delete(c, key) ==
    [_cache |-> Pop(c._cache, key), _expires |-> Pop(c._expires, key)]

SimpleCache_clear(c) == [_cache |-> EmptyDict, _expires |-> EmptyDict]

(***************************************************************************)
(* Keys and records of the launch-data store.                              *)
(***************************************************************************)
StateIds == 1..NumStates
LaunchIds == 1..NumLaunchIds

StateKey(s) == <<"state", s>>
LaunchKey(l) == <<"launch", l>>

\* lifetime of a PendingLogin, seconds
PendingLoginTTL == 600
\* configured lifetime of a ValidatedLaunch, seconds
LaunchDataLifetime == 300

PendingLogin(n) == [kind |-> "PendingLogin", nonce |-> n]

\* LTI_CONFIG of api/main.py: one issuer, one default client, two deployments
Issuer == "https://lms.valis.jala-one.com"
TrustedDeployment == "9:d89e331c21d21263871f13e1c0744565df26572c"
deployment_ids == {TrustedDeployment, "10:8ea1541666cdcdf85d9aae194078dbe76077af87"}

\* a registration entry of the configuration of an issuer
Entry(default, client_id, deployments) ==
    [default |-> default, client_id |-> client_id, deployment_ids |-> deployments]

ClientId == "10000000000006"
OtherClientId == "10000000000005"
NoClientId == ""
ClientIds == {NoClientId, ClientId, OtherClientId}
Issuers == {Issuer, "https://unknown.example"}

\* a configuration without a default-flagged entry
LTI_CONFIG_no_default ==
    [iss \in {Issuer} |-> <<Entry(FALSE, ClientId, deployment_ids)>>]

\* LTI_CONFIG of api/main.py
LTI_CONFIG ==
    [iss \in {Issuer} |-> <<Entry(TRUE, ClientId, deployment_ids)>>]

\* a configuration with two clients of the issuer, the second the default
TwoClientConfig ==
    [iss \in {Issuer} |->
        <<Entry(FALSE, OtherClientId, {"6:8ea1541666cdcdf85d9aae194078dbe76077af87"}),
          Entry(TRUE, ClientId, deployment_ids)>>]

Configs == {LTI_CONFIG, TwoClientConfig}

ConfigError == [kind |-> "ConfigError"]

\* the first of the positions in a non-empty set of positions
FirstIndex(positions) == CHOOSE i \in positions : \A j \in positions : i <= j

\* find_registration(issuer, client_id?) (specification 4.1): the entry of
\* the issuer with that client_id, else its default-flagged entry
find_registration(config, iss, client_id) ==
    IF iss \notin DOMAIN config THEN ConfigError
    ELSE LET entries == config[iss]
             exact == {i \in 1..Len(entries) :
                          client_id # NoClientId /\ entries[i].client_id = client_id}
             defaults == {i \in 1..Len(entries) : entries[i].default}
         IN IF exact # {} THEN entries[FirstIndex(exact)]
            ELSE IF defaults # {} THEN entries[FirstIndex(defaults)]
            ELSE ConfigError

ResourceLinkRequest == "LtiResourceLinkRequest"
DeepLinkingRequest == "LtiDeepLinkingRequest"
SubmissionReviewRequest == "LtiSubmissionReviewRequest"
MessageTypes == {ResourceLinkRequest, DeepLinkingRequest, SubmissionReviewRequest}

\* An id_token as the platform posts it, reduced to what the checks read:
\* sig says the signature verifies against the key set, claims_ok that iss,
\* aud, exp and iat are acceptable.
Token(n, alg, sig, claims_ok, d, m) ==
    [nonce |-> n, alg |-> alg, sig |-> sig, claims_ok |-> claims_ok,
     deployment_id |-> d, message_type |-> m]
\* the tokens posted with state s: well-formed tokens of a trusted
\* deployment (the first login's also with a message type that is neither
\* a resource link nor a deep link) and of another deployment, a token
\* carrying the nonce of another login, and tokens with one defect each
\* (algorithm, signature, standard claims)
Tokens(s) ==
    { Token(s, "RS256", TRUE, TRUE, TrustedDeployment, m) :
         m \in IF s = 1 THEN MessageTypes ELSE {ResourceLinkRequest, DeepLinkingRequest} }
    \cup { Token(s, "RS256", TRUE, TRUE, "1:other", ResourceLinkRequest),
           Token((s % NumStates) + 1, "RS256", TRUE, TRUE, TrustedDeployment, ResourceLinkRequest),
           Token(s, "HS256", TRUE, TRUE, TrustedDeployment, ResourceLinkRequest),
           Token(s, "RS256", FALSE, TRUE, TrustedDeployment, ResourceLinkRequest),
           Token(s, "RS256", TRUE, FALSE, TrustedDeployment, ResourceLinkRequest) }
\* a launch request with state s: the token posted, and whether the
\* platform's key set can be fetched while it is handled
LaunchInputs(s) ==
    { <<token, TRUE>> : token \in Tokens(s) }
    \cup { <<Token(s, "RS256", TRUE, TRUE, TrustedDeployment, ResourceLinkRequest), FALSE>> }

Claims(token) == [kind |-> "claims", nonce |-> token.nonce,
                  deployment_id |-> token.deployment_id,
                  message_type |-> token.message_type]

(***************************************************************************)
(* The protocol engine (specification 4.2, 4.3).                           *)
(***************************************************************************)
Failed(error, check, consumed) ==
    [ok |-> FALSE, error |-> error, check |-> check, consumed |-> consumed]

\* validate(): the ordered checks 1..5 on the PendingLogin found under the
\* posted state; consumed says whether the PendingLogin is deleted.
Validate(pending, token, jwks_ok) ==
    IF pending.kind = "None" THEN Failed("SecurityError", "state", FALSE)
    ELSE IF token.alg # "RS256" THEN Failed("SecurityError", "alg", FALSE)
    ELSE IF ~jwks_ok THEN Failed("ServiceUnavailable", "key_set", FALSE)
    ELSE IF ~token.sig THEN Failed("SecurityError", "signature", FALSE)
    ELSE IF ~token.claims_ok THEN Failed("ValidationError", "claims", FALSE)
    ELSE IF token.nonce # pending.nonce THEN Failed("SecurityError", "nonce", FALSE)
    ELSE IF token.deployment_id \notin deployment_ids
         THEN Failed("ConfigError", "deployment", TRUE)
    ELSE [ok |-> TRUE, error |-> "none", check |-> "none", consumed |-> TRUE]

is_resource_launch(claims) == claims.message_type = ResourceLinkRequest
is_deep_link_launch(claims) == claims.message_type = DeepLinkingRequest

(***************************************************************************)
(* Responses.                                                              *)
(***************************************************************************)
Resp(op, status, error, state, launch_id, body) ==
    [op |-> op, status |-> status, error |-> error,
     state |-> state, launch_id |-> launch_id, body |-> body]

\* a failed launch that still hands a launch id out
LaunchFailed_leaks(v, s) == Resp("launch", 400, v.error, s, 1, v.check)

\* api/main.py, launch: the except clause
LaunchFailed(v, s) == Resp("launch", 400, v.error, s, 0, v.check)

\* a launch handler for which a message type of neither branch is fatal
LaunchSucceeded_strict(claims, s, lid) ==
    IF is_resource_launch(claims)
    THEN Resp("launch", 200, "none", s, 0, "Resource Launch")
    ELSE IF is_deep_link_launch(claims)
    THEN Resp("launch", 200, "none", s, lid, "character_selection")
    ELSE Resp("launch", 400, "LtiException", s, 0, "Unknown Launch")

\* api/main.py, launch: the launch-type branches after a successful validation
LaunchSucceeded(claims, s, lid) ==
    IF is_resource_launch(claims)
    THEN Resp("launch", 200, "none", s, 0, "Resource Launch")
    ELSE IF is_deep_link_launch(claims)
    THEN Resp("launch", 200, "none", s, lid, "character_selection")
    ELSE Resp("launch", 200, "none", s, 0, "Unknown Launch")

(***************************************************************************)
(* The tool's key set (GET /jwks).                                         *)
(***************************************************************************)
\* RSA public keys: modulus and public exponent
RsaKey(n, e) == [n |-> n, e |-> e]
ToolKey == RsaKey(3233, 17)
PublicKeys == {ToolKey, RsaKey(3127, 17), RsaKey(3233, 7)}

KidWidth == 16

\* Registration.get_kid: a digest of the key material
kid(key) == (key.n * 31 + key.e) % (2 ^ KidWidth)

\* Registration.get_jwks for the tool public key set: one JWK
get_jwks(key) ==
    <<[kty |-> "RSA", alg |-> "RS256", use |-> "sig",
       n |-> key.n, e |-> key.e, kid |-> kid(key)]>>

JwksResp(status, error, body, key, keys) ==
    [op |-> "jwks", status |-> status, error |-> error, state |-> 0,
     launch_id |-> 0, body |-> body, key |-> key, keys |-> keys]

\* a jwks handler that serves the key set it built for the first key it saw
JwksResponse_stale(loaded, key, raises) ==
    IF ~loaded
    THEN JwksResp(503, "HTTPException", "RSA keys not configured", key, <<>>)
    ELSE IF raises
    THEN JwksResp(500, "Exception", "JWKS generation failed", key, <<>>)
    ELSE JwksResp(200, "none", "keys", key, get_jwks(ToolKey))

\* GET /jwks: what the handler answers for the public key it reads
JwksResponse(loaded, key, raises) ==
    IF ~loaded
    THEN JwksResp(503, "HTTPException", "RSA keys not configured", key, <<>>)
    ELSE IF raises
    THEN JwksResp(500, "Exception", "JWKS generation failed", key, <<>>)
    ELSE JwksResp(200, "none", "keys", key, get_jwks(key))

(***************************************************************************)
(* FastAPISessionService (session.py): a store of its own per instance.    *)
(***************************************************************************)
\* what data_storage of a session service refers to: the storage the base
\* class starts with, or the launch data storage that holds the cache
DefaultDataStorage == "SessionDataStorage"
LaunchDataStorage == "launch_data_storage"

FastAPISessionService_init ==
    [_storage |-> EmptyDict, _expirations |-> EmptyDict,
     _launch_data_lifetime |-> LaunchDataLifetime,
     data_storage |-> DefaultDataStorage]

\* a _cleanup_expired that removes the expired values and keeps their
\* expirations
cleanup_expired_storage_only(sv, t) ==
    LET expired_keys == {k \in DOMAIN sv._expirations : sv._expirations[k] < t}
    IN [sv EXCEPT !._storage = [k \in (DOMAIN sv._storage) \ expired_keys |->
                                   sv._storage[k]]]

cleanup_expired(sv, t) ==
    LET expired_keys == {k \in DOMAIN sv._expirations : sv._expirations[k] < t}
    IN [_storage |-> [k \in (DOMAIN sv._storage) \ expired_keys |-> sv._storage[k]],
        _expirations |-> [k \in (DOMAIN sv._expirations) \ expired_keys |->
                              sv._expirations[k]],
        _launch_data_lifetime |-> sv._launch_data_lifetime,
        data_storage |-> sv.data_storage]

\* a _set_value that gives every value the default lifetime
set_value_default_lifetime(sv, key, value, t) ==
    [cleanup_expired(sv, t) EXCEPT
        !._storage = Put(@, key, value),
        !._expirations = Put(@, key, t + LaunchDataLifetime)]

set_value(sv, key, value, t) ==
    LET c == cleanup_expired(sv, t)
    IN [_storage |-> Put(c._storage, key, value),
        _expirations |-> Put(c._expirations, key, t + c._launch_data_lifetime),
        _launch_data_lifetime |-> c._launch_data_lifetime,
        data_storage |-> c.data_storage]

\* _get_value: the value returned (the instance it leaves is cleanup_expired)
get_value(sv, key, t) == DictGet(cleanup_expired(sv, t)._storage, key)

set_launch_data_lifetime(sv, time_sec) == [sv EXCEPT !._launch_data_lifetime = time_sec]

set_data_storage(sv, data_storage) == [sv EXCEPT !.data_storage = data_storage]

(***************************************************************************)
(* FastAPIRedisSessionService (session.py): JSON text in a Redis server.   *)
(***************************************************************************)
Digits == <<"1", "2", "3", "4", "5", "6", "7", "8", "9">>
NumText(n) == Digits[n]
NumValue(text) == CHOOSE n \in 1..Len(Digits) : Digits[n] = text

\* json.dumps of a claims object: the text, as its sequence of tokens
json_dumps(c) ==
    <<"{", "\"kind\"", ":", "\"", c.kind, "\"", ",",
      "\"nonce\"", ":", NumText(c.nonce), ",",
      "\"deployment_id\"", ":", "\"", c.deployment_id, "\"", ",",
      "\"message_type\"", ":", "\"", c.message_type, "\"", "}">>

\* a decoder that takes deployment_id and message_type from each other's place
json_loads_swapped(text) ==
    [kind |-> text[5], nonce |-> NumValue(text[10]),
     deployment_id |-> text[21], message_type |-> text[15]]

\* json.loads of such a text
json_loads(text) ==
    [kind |-> text[5], nonce |-> NumValue(text[10]),
     deployment_id |-> text[15], message_type |-> text[21]]

\* redis_client.setex(key, time, value): the key lives for `time` seconds
redis_setex(r, key, time, value, t) ==
    Put(r, key, [value |-> value, expire_at |-> t + time])

\* redis_client.get(key): the text, or <<>> for a missing or expired key
redis_get(r, key, t) ==
    IF key \in DOMAIN r /\ t < r[key].expire_at THEN r[key].value ELSE <<>>

Redis_set_value(r, key, value, lifetime, t) ==
    redis_setex(r, key, lifetime, json_dumps(value), t)

Redis_get_value(r, key, t) ==
    LET value == redis_get(r, key, t)
    IN IF value # <<>> THEN json_loads(value) ELSE None

(***************************************************************************)
(* History kept for the properties.                                        *)
(***************************************************************************)
\* the threads that construct a FastAPICacheDataStorage concurrently; the
\* SimpleCache object a thread creates is named by the thread's number,
\* NoObject stands for None
NumThreads == 3
Threads == 1..NumThreads
NoObject == 0

(***************************************************************************)
(* The web layer: FastAPIRequest (request.py), FastAPICookieService        *)
(* (cookie.py), FastAPIRedirect (redirect.py).                             *)
(***************************************************************************)
\* Optional[str]: None and a string
Absent == <<>>
Str(v) == <<v>>

\* dict.get(key) on a dict of strings
StrGet(d, key) == IF key \in DOMAIN d THEN Str(d[key]) ELSE Absent

\* {**d1, **d2}
Merge(d1, d2) ==
    [k \in (DOMAIN d1) \cup (DOMAIN d2) |-> IF k \in DOMAIN d2 THEN d2[k] ELSE d1[k]]

\* the request the web framework hands to the handler
Request(method, scheme, headers, cookies, query_params, form_data) ==
    [method |-> method, url |-> [scheme |-> scheme], headers |-> headers,
     cookies |-> cookies, query_params |-> query_params, form_data |-> form_data]

\* str.lower() on the header values that occur
Lower(v) == IF v = "On" THEN "on" ELSE IF v = "ON" THEN "on" ELSE v

\* FastAPIRequest.is_secure
is_secure(request) ==
    IF request.url.scheme = "https" THEN TRUE
    ELSE IF StrGet(request.headers, "X-Forwarded-Proto") = Str("https") THEN TRUE
    ELSE IF /\ "X-Forwarded-Ssl" \in DOMAIN request.headers
            /\ Lower(request.headers["X-Forwarded-Ssl"]) = "on" THEN TRUE
    ELSE FALSE

\* a get_param that looks in the query string first and then in the form
get_param_query_first(request, key) ==
    IF key \in DOMAIN request.query_params
    THEN StrGet(request.query_params, key)
    ELSE StrGet(request.form_data, key)

\* FastAPIRequest.get_param
get_param(request, key) ==
    IF request.method = "GET"
    THEN StrGet(request.query_params, key)
    ELSE StrGet(request.form_data, key)

\* CookieService._cookie_prefix
CookiePrefix == "lti1p3"

\* a cookie service that uses the name for the key
CookieService_get_key_bare(key) == key

\* FastAPICookieService._get_key
CookieService_get_key(key) == CookiePrefix \o "-" \o key

\* FastAPICookieService.get_cookie
get_cookie(request, name) == StrGet(request.cookies, CookieService_get_key(name))

\* FastAPICookieService.set_cookie: _cookies_to_set afterwards
set_cookie(cookies_to_set, name, value, exp, kwargs) ==
    Put(cookies_to_set, CookieService_get_key(name),
        Merge([value |-> value, max_age |-> exp], kwargs))

\* an update_response whose defaults win over the extra keyword arguments
cookie_kwargs_defaults_win(request, key, cookie_data) ==
    LET defaults == [key |-> key, value |-> cookie_data.value,
                     max_age |-> cookie_data.max_age,
                     secure |-> (request.url.scheme = "https"),
                     httponly |-> TRUE, path |-> "/"]
        with_samesite == IF request.url.scheme = "https"
                         THEN Merge(defaults, [samesite |-> "None"])
                         ELSE defaults
        extra == [k \in (DOMAIN cookie_data) \ {"value", "max_age"} |-> cookie_data[k]]
    IN Merge(extra, with_samesite)

\* update_response: the keyword arguments of response.set_cookie for one
\* recorded cookie
cookie_kwargs(request, key, cookie_data) ==
    LET defaults == [key |-> key, value |-> cookie_data.value,
                     max_age |-> cookie_data.max_age,
                     secure |-> (request.url.scheme = "https"),
                     httponly |-> TRUE, path |-> "/"]
        with_samesite == IF request.url.scheme = "https"
                         THEN Merge(defaults, [samesite |-> "None"])
                         ELSE defaults
        extra == [k \in (DOMAIN cookie_data) \ {"value", "max_age"} |-> cookie_data[k]]
    IN Merge(with_samesite, extra)

\* FastAPICookieService.update_response: the cookies set on the response
update_response(request, cookies_to_set) ==
    [key \in DOMAIN cookies_to_set |-> cookie_kwargs(request, key, cookies_to_set[key])]

\* a write of value under key at time t with the given timeout, by request r
Written(value, timeout, t, r) == [value |-> value, timeout |-> timeout, at |-> t, req |-> r]

Idle == [pc |-> "idle", state |-> 0, pending |-> None]

Init ==
    /\ app \in Apps
    /\ now = 0
    /\ keys_loaded \in (IF app = "prod" THEN BOOLEAN ELSE {TRUE})
    /\ public_key \in (IF app = "prod" THEN PublicKeys ELSE {ToolKey})
    /\ cache = SimpleCache_init
    /\ shared_cache = <<>>
    /\ svc = FastAPISessionService_init
    /\ redis = EmptyDict
    /\ nextState = 0
    /\ nextLaunch = 0
    /\ stored = EmptyDict
    /\ inflight = [r \in 1..NumRequests |-> Idle]
    /\ web = [request |-> Request("GET", "http", EmptyDict, EmptyDict, EmptyDict, EmptyDict),
              _cookies_to_set |-> EmptyDict, answered |-> FALSE, response |-> EmptyDict]
    /\ ctor = [_shared_cache |-> NoObject,
               inst |-> [t \in Threads |-> [pc |-> "start", _cache |-> NoObject]]]
    /\ lastResp = [op |-> "init"]

\* time passes
Tick(d) ==
    /\ now + d <= MaxTime
    /\ now' = now + d
    /\ lastResp' = [op |-> "tick"]
    /\ UNCHANGED <<app, web, ctor, public_key, shared_cache, keys_loaded, cache, svc, redis, nextState, nextLaunch,
                   stored, inflight>>

(***************************************************************************)
(* api/main.py: the handlers, on the module-level SimpleCache `cache`      *)
(* that get_launch_data_storage() wraps for every request.                 *)
(***************************************************************************)
\* GET/POST /api/login.  start(): resolve the registration of iss, mint
\* state and nonce, persist the PendingLogin, redirect.
Login(iss, client_id) ==
    /\ app = "api"
    /\ IF find_registration(LTI_CONFIG, iss, client_id) = ConfigError
       THEN /\ lastResp' = Resp("login", 400, "ConfigError", 0, 0,
                                "OIDC Login failed")
            /\ UNCHANGED <<cache, nextState, stored>>
       ELSE /\ nextState < NumStates
            /\ LET s == nextState + 1 IN
               /\ nextState' = s
               /\ cache' = SimpleCache_set(cache, StateKey(s), PendingLogin(s),
                                           Secs(PendingLoginTTL), now)
               /\ stored' = Put(stored, StateKey(s),
                                Written(PendingLogin(s), Secs(PendingLoginTTL), now, 0))
               /\ lastResp' = Resp("login", 302, "none", s, 0, "redirect")
    /\ UNCHANGED <<app, web, ctor, public_key, shared_cache, now, keys_loaded, svc, redis, nextLaunch, inflight>>

\* validate(), after the checks gave v: consume the PendingLogin, persist
\* the ValidatedLaunch (steps 4 and 7); the store it leaves
ValidateCommit(c, v, s, token, lid, t) ==
    LET c2 == IF v.consumed THEN SimpleCache_delete(c, StateKey(s)) ELSE c
    IN IF v.ok
       THEN SimpleCache_set(c2, LaunchKey(lid), Claims(token), Secs(LaunchDataLifetime), t)
       ELSE c2

\* validate(), steps 1..7, on a store c: the store it leaves
ValidateStore(c, s, token, jwks_ok, lid, t) ==
    ValidateCommit(SimpleCache_get_effect(c, StateKey(s), t),
                   Validate(SimpleCache_get(c, StateKey(s), t), token, jwks_ok),
                   s, token, lid, t)

\* POST /api/launch
Launch(s, token, jwks_ok) ==
    /\ app = "api"
    /\ LET pending == SimpleCache_get(cache, StateKey(s), now)
           v == Validate(pending, token, jwks_ok)
           lid == nextLaunch + 1
       IN /\ v.ok => nextLaunch < NumLaunchIds
          /\ cache' = ValidateStore(cache, s, token, jwks_ok, lid, now)
          /\ IF v.ok
             THEN /\ nextLaunch' = lid
                  /\ stored' = Put(stored, LaunchKey(lid),
                                   Written(Claims(token), Secs(LaunchDataLifetime), now, 0))
                  /\ lastResp' = LaunchSucceeded(Claims(token), s, lid)
             ELSE /\ lastResp' = LaunchFailed(v, s)
                  /\ UNCHANGED <<nextLaunch, stored>>
    /\ UNCHANGED <<app, web, ctor, public_key, shared_cache, now, keys_loaded, svc, redis, nextState, inflight>>

\* from_cache(launch_id): the launch data found under the launch id, or None
from_cache(c, l, t) == SimpleCache_get(c, LaunchKey(l), t)

\* a configure handler without the deep-link check
ConfigureOutcome_any(data, fetch_ok) ==
    IF data.kind = "None" THEN Failed("LtiException", "launch_not_found", FALSE)
    ELSE IF ~fetch_ok THEN Failed("Exception", "fetch", FALSE)
    ELSE [ok |-> TRUE, error |-> "none", check |-> "none", consumed |-> FALSE]

\* api/main.py, configure_deep_link: what the handler answers for the
\* launch data from_cache found
ConfigureOutcome(data, fetch_ok) ==
    IF data.kind = "None" THEN Failed("LtiException", "launch_not_found", FALSE)
    ELSE IF ~is_deep_link_launch(data) THEN Failed("HTTPException", "not_deep_link", FALSE)
    ELSE IF ~fetch_ok THEN Failed("Exception", "fetch", FALSE)
    ELSE [ok |-> TRUE, error |-> "none", check |-> "none", consumed |-> FALSE]

\* GET /jwks of api/main.py: the public key is the content of the key file
\* at the time of the call
Jwks(key, raises) ==
    /\ app = "api"
    /\ lastResp' = JwksResponse(keys_loaded, key, raises)
    /\ UNCHANGED <<app, web, ctor, public_key, shared_cache, now, keys_loaded, cache, svc, redis,
                   nextState, nextLaunch, stored, inflight>>

\* GET/POST /api/configure/{launch_id}
Configure(l, fetch_ok) ==
    /\ app = "api"
    /\ LET data == from_cache(cache, l, now)
           o == ConfigureOutcome(data, fetch_ok)
       IN /\ cache' = SimpleCache_get_effect(cache, LaunchKey(l), now)
          /\ lastResp' = IF o.ok
                          THEN Resp("configure", 200, "none", 0, l,
                                    "deep_link_response_form")
                          ELSE Resp("configure", 400, o.error, 0, l,
                                    "Deep link configuration failed")
    /\ UNCHANGED <<app, web, ctor, public_key, shared_cache, now, keys_loaded, svc, redis, nextState, nextLaunch,
                   stored, inflight>>

(***************************************************************************)
(* main_production.py: the handlers.  No launch-data storage is passed, so *)
(* what a request saves goes to the FastAPISessionService it constructs.   *)
(* Which FastAPIRequest class the login handler's try block meets is not   *)
(* decided by the sources, so the block either completes or raises.        *)
(***************************************************************************)
\* the history when a new request (a new session service instance) starts
Aged(h) == [k \in DOMAIN h |-> [h[k] EXCEPT !.req = 1]]

\* GET /login
ProdLogin(raises) ==
    /\ app = "prod"
    /\ IF ~keys_loaded
       THEN /\ lastResp' = Resp("login", 503, "HTTPException", 0, 0, "LTI not configured")
            /\ UNCHANGED <<svc, nextState, stored>>
       ELSE IF raises
       THEN /\ lastResp' = Resp("login", 400, "Exception", 0, 0, "OIDC Login failed")
            /\ UNCHANGED <<svc, nextState, stored>>
       ELSE /\ nextState < NumStates
            /\ LET s == nextState + 1 IN
               /\ nextState' = s
               /\ svc' = set_value(FastAPISessionService_init, StateKey(s),
                                   PendingLogin(s), now)
               /\ stored' = Put(Aged(stored), StateKey(s),
                                Written(PendingLogin(s), Secs(LaunchDataLifetime), now, 0))
               /\ lastResp' = Resp("login", 307, "none", s, 0, "redirect")
    /\ UNCHANGED <<app, web, ctor, public_key, shared_cache, now, keys_loaded, cache, redis, nextLaunch, inflight>>

\* POST /launch
ProdLaunch(s, token, jwks_ok) ==
    /\ app = "prod"
    /\ IF ~keys_loaded
       THEN /\ lastResp' = Resp("launch", 503, "HTTPException", 0, 0, "LTI not configured")
            /\ UNCHANGED <<svc, nextLaunch, stored>>
       ELSE LET sv == FastAPISessionService_init
                pending == get_value(sv, StateKey(s), now)
                v == Validate(pending, token, jwks_ok)
                sv1 == cleanup_expired(sv, now)
                lid == nextLaunch + 1
            IN IF v.ok
               THEN /\ nextLaunch < NumLaunchIds
                    /\ nextLaunch' = lid
                    /\ svc' = set_value(sv1, LaunchKey(lid), Claims(token), now)
                    /\ stored' = Put(Aged(stored), LaunchKey(lid),
                                     Written(Claims(token), Secs(LaunchDataLifetime), now, 0))
                    /\ lastResp' = LaunchSucceeded(Claims(token), s, 0)
               ELSE /\ svc' = sv1
                    /\ stored' = Aged(stored)
                    /\ lastResp' = LaunchFailed(v, s)
                    /\ UNCHANGED nextLaunch
    /\ UNCHANGED <<app, web, ctor, public_key, shared_cache, now, keys_loaded, cache, redis, nextState, inflight>>

\* GET /jwks
ProdJwks(raises) ==
    /\ app = "prod"
    /\ lastResp' = JwksResponse(keys_loaded, public_key, raises)
    /\ UNCHANGED <<app, web, ctor, public_key, shared_cache, now, keys_loaded, cache, svc, redis, nextState, nextLaunch,
                   stored, inflight>>

(***************************************************************************)
(* FastAPISessionService on its own: requests construct an instance, save  *)
(* values through it and read values through it.                           *)
(***************************************************************************)
UnitKeys == {StateKey(1), LaunchKey(1)}
UnitValues == {Claims(Token(1, "RS256", TRUE, TRUE, TrustedDeployment, DeepLinkingRequest)),
               Claims(Token(2, "RS256", TRUE, TRUE, TrustedDeployment, ResourceLinkRequest))}
Lifetimes == {300, 600}

OpResult(op, key, result) == [op |-> op, key |-> key, result |-> result]

\* FastAPISessionService(request): the next request's instance
NewRequest ==
    /\ app = "session"
    /\ svc' = FastAPISessionService_init
    /\ stored' = Aged(stored)
    /\ lastResp' = OpResult("new_request", StateKey(0), None)
    /\ UNCHANGED <<app, web, ctor, public_key, shared_cache, now, keys_loaded, cache, redis, nextState, nextLaunch, inflight>>

SessionSetValue(key, value) ==
    /\ app = "session"
    /\ svc' = set_value(svc, key, value, now)
    /\ stored' = Put(stored, key,
                     Written(value, Secs(svc._launch_data_lifetime), now, 0))
    /\ lastResp' = OpResult("set", key, value)
    /\ UNCHANGED <<app, web, ctor, public_key, shared_cache, now, keys_loaded, cache, redis, nextState, nextLaunch, inflight>>

SessionGetValue(key) ==
    /\ app = "session"
    /\ svc' = cleanup_expired(svc, now)
    /\ lastResp' = OpResult("get", key, get_value(svc, key, now))
    /\ UNCHANGED <<app, web, ctor, public_key, shared_cache, now, keys_loaded, cache, redis, nextState, nextLaunch,
                   stored, inflight>>

\* set_data_storage(ds), ds being the launch data storage on the cache
SessionSetDataStorage ==
    /\ app = "session"
    /\ svc' = set_data_storage(svc, LaunchDataStorage)
    /\ lastResp' = OpResult("set_data_storage", StateKey(0), None)
    /\ UNCHANGED <<app, web, ctor, public_key, shared_cache, now, keys_loaded, cache, redis, nextState,
                   nextLaunch, stored, inflight>>

SessionSetLifetime(time_sec) ==
    /\ app = "session"
    /\ svc' = set_launch_data_lifetime(svc, time_sec)
    /\ lastResp' = OpResult("set_launch_data_lifetime", StateKey(0), time_sec)
    /\ UNCHANGED <<app, web, ctor, public_key, shared_cache, now, keys_loaded, cache, redis, nextState, nextLaunch,
                   stored, inflight>>

(***************************************************************************)
(* FastAPIRedisSessionService on its own: every instance talks to the same *)
(* Redis server.                                                           *)
(***************************************************************************)
RedisSetValue(key, value) ==
    /\ app = "redis"
    /\ redis' = Redis_set_value(redis, key, value, svc._launch_data_lifetime, now)
    /\ stored' = Put(stored, key,
                     Written(value, Secs(svc._launch_data_lifetime), now, 0))
    /\ lastResp' = OpResult("set", key, value)
    /\ UNCHANGED <<app, web, ctor, public_key, shared_cache, now, keys_loaded, cache, svc, nextState, nextLaunch, inflight>>

\* FastAPIRedisSessionService.set_launch_data_lifetime(time_sec)
RedisSetLifetime(time_sec) ==
    /\ app = "redis"
    /\ svc' = set_launch_data_lifetime(svc, time_sec)
    /\ lastResp' = OpResult("set_launch_data_lifetime", StateKey(0), time_sec)
    /\ UNCHANGED <<app, web, ctor, public_key, shared_cache, now, keys_loaded, cache, redis, nextState, nextLaunch,
                   stored, inflight>>

RedisGetValue(key) ==
    /\ app = "redis"
    /\ lastResp' = OpResult("get", key, Redis_get_value(redis, key, now))
    /\ UNCHANGED <<app, web, ctor, public_key, shared_cache, now, keys_loaded, cache, svc, redis, nextState, nextLaunch,
                   stored, inflight>>

(***************************************************************************)
(* FastAPICacheDataStorage (cache.py) on its own: a request constructs an  *)
(* instance, without a cache argument or with the cache it holds, and      *)
(* writes or reads one key through it.                                     *)
(***************************************************************************)
\* a constructor that makes a SimpleCache of its own for every instance
SharedAfterInit_fresh(shared) == <<SimpleCache_init>>

\* FastAPICacheDataStorage(): _shared_cache after the constructor ran
SharedAfterInit(shared) == IF shared = <<>> THEN <<SimpleCache_init>> ELSE shared

Constructions == {"shared", "explicit"}
CacheTimeouts == {NoTimeout, Secs(0), Secs(PendingLoginTTL)}

StorageResult(op, which, key, result) ==
    [op |-> op, which |-> which, key |-> key, result |-> result]

\* FastAPICacheDataStorage(...).set_value(key, value, exp)
StorageSet(which, key, value, timeout) ==
    /\ app = "cache"
    /\ IF which = "shared"
       THEN /\ shared_cache' = <<SimpleCache_set(SharedAfterInit(shared_cache)[1],
                                                 key, value, timeout, now)>>
            /\ UNCHANGED <<cache, stored>>
       ELSE /\ cache' = SimpleCache_set(cache, key, value, timeout, now)
            /\ stored' = Put(stored, key, Written(value, timeout, now, 0))
            /\ UNCHANGED shared_cache
    /\ lastResp' = StorageResult("set", which, key, value)
    /\ UNCHANGED <<app, web, ctor, public_key, now, keys_loaded, svc, redis, nextState, nextLaunch, inflight>>

\* FastAPICacheDataStorage(...).get_value(key)
StorageGet(which, key) ==
    /\ app = "cache"
    /\ IF which = "shared"
       THEN LET c == SharedAfterInit(shared_cache)[1] IN
            /\ shared_cache' = <<SimpleCache_get_effect(c, key, now)>>
            /\ lastResp' = StorageResult("get", which, key, SimpleCache_get(c, key, now))
            /\ UNCHANGED cache
       ELSE /\ cache' = SimpleCache_get_effect(cache, key, now)
            /\ lastResp' = StorageResult("get", which, key, SimpleCache_get(cache, key, now))
            /\ UNCHANGED shared_cache
    /\ UNCHANGED <<app, web, ctor, public_key, now, keys_loaded, svc, redis, nextState, nextLaunch,
                   stored, inflight>>

(***************************************************************************)
(* FastAPICookieService on its own: a request arrives with the cookies the *)
(* client holds, the handler records cookies, reads cookies, and answers.  *)
(***************************************************************************)
CookieNames == {"state", "nonce"}
\* value and max_age of the cookies the handlers record
CookieValues == {<<"v1", 3600>>, <<"v2", 300>>}
\* extra keyword arguments of set_cookie
NoKwargs == EmptyDict
CookieKwargs == {NoKwargs, [samesite |-> "Lax"]}
\* the set_cookie calls of the handlers: name, value, exp, kwargs
SetCookieCalls ==
    {<<"state", v[1], v[2], NoKwargs>> : v \in CookieValues}
    \cup {<<"nonce", "v1", 3600, kwargs>> : kwargs \in CookieKwargs}
Schemes == {"http", "https"}
\* headers a reverse proxy adds
ProxyHeaders == {EmptyDict, [k \in {"X-Forwarded-Proto"} |-> "https"],
                 [k \in {"X-Forwarded-Ssl"} |-> "On"]}

\* cookies of other origin the client holds: one under a bare cookie name,
\* one under another prefix
ForeignCookies == [k \in {"state", "other-nonce"} |-> "foreign"]

\* the cookies the client sends: those of the last response and the
\* foreign ones
ClientCookies(response) ==
    Merge(ForeignCookies, [key \in DOMAIN response |-> response[key].value])

\* a request arrives; FastAPICookieService(request)
CookieRequest(scheme, headers) ==
    /\ app = "cookie"
    /\ web' = [request |-> Request("GET", scheme, headers, ClientCookies(web.response),
                                   EmptyDict, EmptyDict),
               _cookies_to_set |-> EmptyDict, answered |-> FALSE,
               response |-> web.response]
    /\ lastResp' = [op |-> "request"]
    /\ UNCHANGED <<app, ctor, public_key, shared_cache, now, keys_loaded, cache, svc, redis,
                   nextState, nextLaunch, stored, inflight>>

\* set_cookie(name, value, exp, **kwargs)
CookieSet(name, value, exp, kwargs) ==
    /\ app = "cookie"
    /\ ~web.answered
    /\ web' = [web EXCEPT !._cookies_to_set = set_cookie(@, name, value, exp, kwargs)]
    /\ lastResp' = [op |-> "set_cookie", name |-> name, value |-> value, max_age |-> exp]
    /\ UNCHANGED <<app, ctor, public_key, shared_cache, now, keys_loaded, cache, svc, redis,
                   nextState, nextLaunch, stored, inflight>>

\* get_cookie(name)
CookieGet(name) ==
    /\ app = "cookie"
    /\ lastResp' = [op |-> "get_cookie", name |-> name,
                    result |-> get_cookie(web.request, name)]
    /\ UNCHANGED <<app, ctor, web, public_key, shared_cache, now, keys_loaded, cache, svc, redis,
                   nextState, nextLaunch, stored, inflight>>

\* FastAPIRedirect.do_redirect / do_js_redirect, FastAPIOIDCLogin.get_response:
\* a RedirectResponse or an HTMLResponse is made and update_response(response)
\* sets the cookies on it
CookieUpdateResponse(kind) ==
    /\ app = "cookie"
    /\ ~web.answered
    /\ web' = [web EXCEPT !.answered = TRUE,
                          !.response = update_response(web.request, web._cookies_to_set)]
    /\ lastResp' = [op |-> "update_response", kind |-> kind,
                    cookies |-> update_response(web.request, web._cookies_to_set)]
    /\ UNCHANGED <<app, ctor, public_key, shared_cache, now, keys_loaded, cache, svc, redis,
                   nextState, nextLaunch, stored, inflight>>

(***************************************************************************)
(* FastAPIRequest on its own: the login handler wraps the HTTP request     *)
(* with its form data, and the OIDC login asks it for its parameters.      *)
(***************************************************************************)
Methods == {"GET", "POST"}
ParamKeys == {"iss", "login_hint"}
\* OIDC parameters in the query string and in the form body of a request
QueryParams == {EmptyDict, [k \in {"iss"} |-> Issuer],
                [k \in {"iss", "login_hint"} |-> IF k = "iss" THEN Issuer ELSE "hint-q"]}
FormParams == {EmptyDict, [k \in {"iss"} |-> "https://unknown.example"],
               [k \in {"login_hint"} |-> "hint-f"]}

\* api/main.py, login: form_data is empty for GET and the posted form
\* otherwise; FastAPIRequest(request, form_data); the login takes iss
LoginRequest(method, query, form) ==
    /\ app = "request"
    /\ LET form_data == IF method = "GET" THEN EmptyDict ELSE form
           fastapi_request == Request(method, "https", EmptyDict, EmptyDict, query, form_data)
       IN /\ web' = [web EXCEPT !.request = fastapi_request]
          /\ lastResp' = [op |-> "login_request", method |-> method, query |-> query,
                          form |-> form, iss |-> get_param(fastapi_request, "iss")]
    /\ UNCHANGED <<app, ctor, public_key, shared_cache, now, keys_loaded, cache, svc, redis,
                   nextState, nextLaunch, stored, inflight>>

\* FastAPIRequest(request, form_data) for a request of any method
RequestNew(method, query, form) ==
    /\ app = "request"
    /\ web' = [web EXCEPT !.request =
                   Request(method, "https", EmptyDict, EmptyDict, query, form)]
    /\ lastResp' = [op |-> "request"]
    /\ UNCHANGED <<app, ctor, public_key, shared_cache, now, keys_loaded, cache, svc, redis,
                   nextState, nextLaunch, stored, inflight>>

\* get_param(key)
RequestGetParam(key) ==
    /\ app = "request"
    /\ lastResp' = [op |-> "get_param", key |-> key,
                    result |-> get_param(web.request, key)]
    /\ UNCHANGED <<app, ctor, web, public_key, shared_cache, now, keys_loaded, cache, svc, redis,
                   nextState, nextLaunch, stored, inflight>>

\* SimpleCache.delete(key) on the cache the storage was given
CacheDelete(key) ==
    /\ app = "cache"
    /\ cache' = SimpleCache_delete(cache, key)
    /\ stored' = Pop(stored, key)
    /\ lastResp' = StorageResult("delete", "explicit", key, None)
    /\ UNCHANGED <<app, web, ctor, public_key, shared_cache, now, keys_loaded, svc, redis,
                   nextState, nextLaunch, inflight>>

\* SimpleCache.clear() on the cache the storage was given
CacheClear ==
    /\ app = "cache"
    /\ cache' = SimpleCache_clear(cache)
    /\ stored' = EmptyDict
    /\ lastResp' = StorageResult("clear", "explicit", StateKey(0), None)
    /\ UNCHANGED <<app, web, ctor, public_key, shared_cache, now, keys_loaded, svc, redis,
                   nextState, nextLaunch, inflight>>

Next ==
    \/ \E d \in TickSteps : Tick(d)
    \/ \E iss \in Issuers : \E client_id \in ClientIds : Login(iss, client_id)
    \/ \E s \in StateIds : \E in \in LaunchInputs(s) : Launch(s, in[1], in[2])
    \/ \E l \in LaunchIds, fetch_ok \in BOOLEAN : Configure(l, fetch_ok)
    \/ \E raises \in BOOLEAN : ProdLogin(raises)
    \/ \E s \in StateIds : \E in \in LaunchInputs(s) : ProdLaunch(s, in[1], in[2])
    \/ \E raises \in BOOLEAN : ProdJwks(raises)
    \/ \E key \in PublicKeys : \E raises \in BOOLEAN : Jwks(key, raises)
    \/ NewRequest
    \/ \E key \in UnitKeys, value \in UnitValues : SessionSetValue(key, value)
    \/ \E key \in UnitKeys : SessionGetValue(key)
    \/ \E time_sec \in Lifetimes : SessionSetLifetime(time_sec)
    \/ SessionSetDataStorage
    \/ \E key \in UnitKeys, value \in UnitValues : RedisSetValue(key, value)
    \/ \E key \in UnitKeys : RedisGetValue(key)
    \/ \E time_sec \in Lifetimes : RedisSetLifetime(time_sec)
    \/ \E key \in UnitKeys, value \in UnitValues, timeout \in CacheTimeouts :
          StorageSet("explicit", key, value, timeout)
    \/ \E value \in UnitValues : StorageSet("shared", StateKey(1), value, NoTimeout)
    \/ \E which \in Constructions, key \in UnitKeys : StorageGet(which, key)
    \/ \E key \in UnitKeys : CacheDelete(key)
    \/ CacheClear
    \/ \E scheme \in Schemes, headers \in ProxyHeaders : CookieRequest(scheme, headers)
    \/ \E call \in SetCookieCalls : CookieSet(call[1], call[2], call[3], call[4])
    \/ \E name \in CookieNames : CookieGet(name)
    \/ \E kind \in {"RedirectResponse", "HTMLResponse"} : CookieUpdateResponse(kind)
    \/ \E method \in Methods, query \in QueryParams, form \in FormParams :
          LoginRequest(method, query, form)
    \/ \E method \in Methods \cup {"PUT"}, query \in QueryParams, form \in FormParams :
          RequestNew(method, query, form)
    \/ \E key \in ParamKeys : RequestGetParam(key)

Spec == Init /\ [][Next]_vars

(***************************************************************************)
(* api/main.py with launch requests that interleave at the operations of   *)
(* the store: a request looks its PendingLogin up (SimpleCache.get), and   *)
(* in a later step runs the checks, deletes it and persists the launch.    *)
(***************************************************************************)
LaunchLookup(r, s) ==
    /\ app = "api"
    /\ inflight[r].pc = "idle"
    /\ inflight' = [inflight EXCEPT ![r] =
                       [pc |-> "checked", state |-> s,
                        pending |-> SimpleCache_get(cache, StateKey(s), now)]]
    /\ cache' = SimpleCache_get_effect(cache, StateKey(s), now)
    /\ lastResp' = [op |-> "lookup"]
    /\ UNCHANGED <<app, web, ctor, public_key, shared_cache, now, keys_loaded, svc, redis, nextState, nextLaunch, stored>>

LaunchComplete(r, token, jwks_ok) ==
    /\ app = "api"
    /\ inflight[r].pc = "checked"
    /\ LET s == inflight[r].state
           v == Validate(inflight[r].pending, token, jwks_ok)
           lid == nextLaunch + 1
       IN /\ v.ok => nextLaunch < NumLaunchIds
          /\ cache' = ValidateCommit(cache, v, s, token, lid, now)
          /\ IF v.ok
             THEN /\ nextLaunch' = lid
                  /\ stored' = Put(stored, LaunchKey(lid),
                                   Written(Claims(token), Secs(LaunchDataLifetime), now, 0))
                  /\ lastResp' = LaunchSucceeded(Claims(token), s, lid)
             ELSE /\ lastResp' = LaunchFailed(v, s)
                  /\ UNCHANGED <<nextLaunch, stored>>
    /\ inflight' = [inflight EXCEPT ![r] = Idle]
    /\ UNCHANGED <<app, web, ctor, public_key, shared_cache, now, keys_loaded, svc, redis, nextState>>

(***************************************************************************)
(* FastAPICacheDataStorage() constructed by several threads at once: the   *)
(* test of the global, the creation of the SimpleCache and the assignment  *)
(* to the instance are separate steps of a thread.                         *)
(***************************************************************************)
\* if _shared_cache is None
CtorCheck(t) ==
    /\ app = "cache"
    /\ ctor.inst[t].pc = "start"
    /\ ctor' = [ctor EXCEPT !.inst[t].pc =
                   IF ctor._shared_cache = NoObject THEN "create" ELSE "assign"]
    /\ UNCHANGED <<app, web, public_key, shared_cache, now, keys_loaded, cache, svc, redis,
                   nextState, nextLaunch, stored, inflight, lastResp>>

\* _shared_cache = SimpleCache()
CtorCreate(t) ==
    /\ app = "cache"
    /\ ctor.inst[t].pc = "create"
    /\ ctor' = [ctor EXCEPT !._shared_cache = t, !.inst[t].pc = "assign"]
    /\ shared_cache' = <<SimpleCache_init>>
    /\ UNCHANGED <<app, web, public_key, now, keys_loaded, cache, svc, redis,
                   nextState, nextLaunch, stored, inflight, lastResp>>

\* self._cache = _shared_cache
CtorAssign(t) ==
    /\ app = "cache"
    /\ ctor.inst[t].pc = "assign"
    /\ ctor' = [ctor EXCEPT !.inst[t]._cache = ctor._shared_cache,
                            !.inst[t].pc = "done"]
    /\ UNCHANGED <<app, web, public_key, shared_cache, now, keys_loaded, cache, svc, redis,
                   nextState, nextLaunch, stored, inflight, lastResp>>

InitCtor == Init /\ app = "cache"

NextCtor ==
    \/ \E t \in Threads : CtorCheck(t)
    \/ \E t \in Threads : CtorCreate(t)
    \/ \E t \in Threads : CtorAssign(t)

SpecCtor == InitCtor /\ [][NextCtor]_vars

InitConc == Init /\ app = "api"

NextConc ==
    \/ \E d \in TickSteps : Tick(d)
    \/ \E iss \in Issuers : \E client_id \in ClientIds : Login(iss, client_id)
    \/ \E r \in 1..NumRequests, s \in StateIds : LaunchLookup(r, s)
    \/ \E r \in 1..NumRequests : \E in \in LaunchInputs(inflight[r].state) :
          LaunchComplete(r, in[1], in[2])

SpecConc == InitConc /\ [][NextConc]_vars

(***************************************************************************)
(* Properties.                                                             *)
(***************************************************************************)
\* the launch ids under which the store c holds an entry
LaunchEntries(c) == {l \in LaunchIds : LaunchKey(l) \in DOMAIN c._cache}

\* the ValidatedLaunch entries of the store the launch handler writes to
ValidatedLaunches ==
    LET d == IF app = "api" THEN cache._cache ELSE svc._storage
    IN [k \in {LaunchKey(l) : l \in LaunchIds} \cap DOMAIN d |-> d[k]]

\* the successful validations so far that presented state s
Successes(s) ==
    {l \in LaunchIds : /\ LaunchKey(l) \in DOMAIN stored
                       /\ stored[LaunchKey(l)].value.nonce = s}

SuccessCount(s) == Cardinality(Successes(s))

\* the write recorded under key has a timeout and it has run out
PastTTL(key) ==
    /\ key \in DOMAIN stored
    /\ Truthy(stored[key].timeout)
    /\ now > stored[key].at + stored[key].timeout[1]

\* what a read of key returns now, and the keys the store holds after it
Read(key) ==
    IF app = "api" THEN SimpleCache_get(cache, key, now) ELSE get_value(svc, key, now)

KeysAfterRead(key) ==
    IF app = "api"
    THEN DOMAIN SimpleCache_get_effect(cache, key, now)._cache
         \cup DOMAIN SimpleCache_get_effect(cache, key, now)._expires
    ELSE DOMAIN cleanup_expired(svc, now)._storage
         \cup DOMAIN cleanup_expired(svc, now)._expirations

\* what leaves a handler: the kind of the exception raised and its status
Signal(resp) ==
    [kind |-> IF resp.status >= 400 THEN "HTTPException" ELSE "none",
     status |-> resp.status]

C2_AtomicCheckAndConsume == \A s \in StateIds : SuccessCount(s) <= 1

\* C3: an entry past its TTL is absent.  A key written with a positive
\* timeout and read after the timeout ran out reads as None, the read
\* removes the entry, and a launch whose PendingLogin has expired fails
\* with the invalid-or-expired-state security error.
C3_ExpiredIsAbsent ==
    app \in {"api", "session", "prod"} =>
      /\ \A key \in DOMAIN stored :
            PastTTL(key) => /\ Read(key) = None
                            /\ key \notin KeysAfterRead(key)
      /\ (lastResp.op = "launch" /\ lastResp.state \in StateIds
            /\ PastTTL(StateKey(lastResp.state)))
         => /\ lastResp.status = 400
            /\ lastResp.error = "SecurityError"
            /\ lastResp.body = "state"

\* a launch presented an unconsumed state whose PendingLogin had expired and
\* was still held by the store when the launch read it
C3_Witness ==
    /\ app = "api"
    /\ lastResp.op = "launch"
    /\ lastResp.body = "state"
    /\ lastResp.state \in StateIds
    /\ PastTTL(StateKey(lastResp.state))
    /\ SuccessCount(lastResp.state) = 0
    /\ \E l \in LaunchIds : PastTTL(LaunchKey(l)) /\ LaunchKey(l) \in DOMAIN cache._cache

\* C4: what a request saved through its session service is read back
\* through the session service of a later request, while it has not expired.
C4_ReadableInLaterRequest ==
    app = "session" =>
      \A key \in DOMAIN stored :
         (stored[key].req = 1 /\ ~PastTTL(key)) => Read(key) = stored[key].value

OnlyValidated ==
    \A key \in DOMAIN ValidatedLaunches :
       /\ key \in DOMAIN stored
       /\ ValidatedLaunches[key] = stored[key].value
       /\ ValidatedLaunches[key].deployment_id \in deployment_ids
       /\ Read(StateKey(ValidatedLaunches[key].nonce)) = None

\* a step keeps that, and a failed launch adds no entry and returns no id
NoPartialCommitStep ==
    app \in {"api", "prod"} =>
      /\ OnlyValidated'
      /\ (lastResp'.op = "launch" /\ lastResp'.status # 200)
         => /\ ValidatedLaunches' = ValidatedLaunches
            /\ lastResp'.launch_id = 0

ConfigurableNow(l) ==
    /\ LaunchKey(l) \in DOMAIN stored
    /\ ~PastTTL(LaunchKey(l))
    /\ is_deep_link_launch(stored[LaunchKey(l)].value)

\* C7: deep-link ordering.  The configure endpoint emits the deep-link
\* response form for a launch id only if that launch was validated, is
\* still present in the store and is a deep-link launch; otherwise it
\* emits no form and answers with an error.
C7_DeepLinkOrdering ==
    lastResp.op = "configure" =>
      /\ (lastResp.status = 200 \/ lastResp.body = "deep_link_response_form")
         => ConfigurableNow(lastResp.launch_id)
      /\ ~ConfigurableNow(lastResp.launch_id)
         => /\ lastResp.status = 400
            /\ lastResp.body # "deep_link_response_form"

\* the form was emitted for a validated deep-link launch
C7_Witness ==
    /\ lastResp.op = "configure"
    /\ lastResp.body = "deep_link_response_form"
    /\ ConfigurableNow(lastResp.launch_id)
    /\ \E l \in LaunchIds : LaunchKey(l) \in DOMAIN stored /\ ~ConfigurableNow(l)

\* C8: a DeepLinkingRequest launch is routed to the deep-link branch and a
\* ResourceLinkRequest launch is not; a deep-link operation attempted on a
\* resource launch is signalled with a kind or status other than the one
\* a validation error is signalled with.
C8_DeepLinkMisuseDistinct ==
    /\ (lastResp.op = "launch" /\ lastResp.status = 200)
       => (lastResp.body = "character_selection"
             <=> \E l \in LaunchIds :
                    /\ l = nextLaunch
                    /\ is_deep_link_launch(stored[LaunchKey(l)].value))
    /\ (/\ lastResp.op = "configure"
        /\ LaunchKey(lastResp.launch_id) \in DOMAIN stored
        /\ ~PastTTL(LaunchKey(lastResp.launch_id))
        /\ is_resource_launch(stored[LaunchKey(lastResp.launch_id)].value))
       => Signal(lastResp)
            # Signal(LaunchFailed(Failed("ValidationError", "claims", FALSE), 1))

\* C9: a launch that fails a security check is answered 401 or 403.
C9_SecurityStatus ==
    (lastResp.op = "launch" /\ lastResp.error = "SecurityError")
    => lastResp.status \in {401, 403}

\* C10: a key-set fetch failure during a launch is answered 503, and with
\* the keys not loaded the production endpoints answer 503 and leave the
\* store untouched.
C10_ServiceUnavailable ==
    /\ (lastResp.op \in {"login", "launch"} /\ lastResp.error = "ServiceUnavailable")
       => lastResp.status = 503
    /\ (app = "prod" /\ ~keys_loaded)
       => /\ lastResp.op \in {"login", "launch", "jwks"} => lastResp.status = 503
          /\ svc = FastAPISessionService_init
          /\ stored = EmptyDict

\* the answer to a launch whose validation succeeded carries exactly the
\* class of the message type of the claims stored
Classified(resp, claims, lid) ==
    /\ resp.op = "launch"
    /\ resp.status = 200
    /\ resp.body \in {"Resource Launch", "character_selection", "Unknown Launch"}
    /\ resp.body = "Resource Launch" <=> claims.message_type = ResourceLinkRequest
    /\ resp.body = "character_selection" <=> claims.message_type = DeepLinkingRequest
    /\ resp.body = "Unknown Launch"
         <=> claims.message_type \notin {ResourceLinkRequest, DeepLinkingRequest}
    /\ resp.launch_id = (IF claims.message_type = DeepLinkingRequest THEN lid ELSE 0)

ClassifiedStep ==
    (app = "api" /\ nextLaunch' # nextLaunch)
    => Classified(lastResp', stored'[LaunchKey(nextLaunch')].value, nextLaunch')

\* C11: every validated launch is answered as exactly one of resource
\* launch, deep-link launch or unknown launch; an unknown message type is
\* not fatal (the launch still succeeds), and only a deep-link launch gets
\* the selection page with the launch id.
C11_Classification == [][ClassifiedStep]_vars

\* a launch of a message type of neither branch has just succeeded
C11_Witness ==
    /\ app = "api"
    /\ lastResp.op = "launch"
    /\ lastResp.status = 200
    /\ lastResp.body = "Unknown Launch"
    /\ stored[LaunchKey(nextLaunch)].value.message_type = SubmissionReviewRequest

\* the PendingLogin of state s was created and the store no longer holds it
Gone(s) == StateKey(s) \in DOMAIN stored /\ StateKey(s) \notin DOMAIN cache._cache

\* a launch that fails at the deployment check leaves its PendingLogin
\* deleted, a PendingLogin that is gone stays gone, and a launch that
\* presents a state whose PendingLogin is gone fails at the state lookup
ConsumedStep ==
    app = "api" =>
      /\ \A s \in StateIds :
            (lastResp'.op = "launch" /\ lastResp'.body = "deployment"
               /\ lastResp'.state = s)
            => Gone(s)'
      /\ \A s \in StateIds : Gone(s) => Gone(s)'
      /\ \A s \in StateIds :
            (Gone(s) /\ lastResp'.op = "launch" /\ lastResp'.state = s)
            => /\ lastResp'.status = 400
               /\ lastResp'.error = "SecurityError"
               /\ lastResp'.body = "state"

C13_DefaultTTL ==
    /\ app = "cache" =>
         \A key \in DOMAIN stored :
            stored[key].timeout = NoTimeout =>
              /\ now > stored[key].at + PendingLoginTTL
                 => SimpleCache_get(cache, key, now) = None
              /\ (now <= stored[key].at + PendingLoginTTL /\ key \in DOMAIN cache._cache)
                 => SimpleCache_get(cache, key, now) = stored[key].value
    /\ app = "api" =>
         \A s \in StateIds :
            StateKey(s) \in DOMAIN stored =>
              /\ now > stored[StateKey(s)].at + PendingLoginTTL
                 => SimpleCache_get(cache, StateKey(s), now) = None
              /\ (now <= stored[StateKey(s)].at + PendingLoginTTL /\ ~Gone(s))
                 => SimpleCache_get(cache, StateKey(s), now) = PendingLogin(s)

\* a step leaves every stored ValidatedLaunch as it was written, or takes
\* it away because it has expired
ImmutableStep ==
    app = "api" =>
      \A l \in LaunchIds :
         LaunchKey(l) \in DOMAIN cache._cache =>
           IF LaunchKey(l) \in DOMAIN cache'._cache
           THEN /\ cache'._cache[LaunchKey(l)] = cache._cache[LaunchKey(l)]
                /\ cache'._cache[LaunchKey(l)] = stored'[LaunchKey(l)].value
                /\ cache'._expires[LaunchKey(l)] = cache._expires[LaunchKey(l)]
           ELSE PastTTL(LaunchKey(l))

C15_ConfiguredLifetime ==
    /\ (app \in {"session", "redis"} /\ lastResp.op = "set_launch_data_lifetime")
       => svc._launch_data_lifetime = lastResp.result
    /\ app = "session" =>
         \A key \in DOMAIN svc._storage :
            /\ key \in DOMAIN stored
            /\ svc._expirations[key] = stored[key].at + stored[key].timeout[1]
            /\ get_value(svc, key, now) =
                 (IF now <= stored[key].at + stored[key].timeout[1]
                  THEN stored[key].value ELSE None)
    /\ app = "redis" =>
         \A key \in DOMAIN stored :
            /\ redis[key].expire_at = stored[key].at + stored[key].timeout[1]
            /\ Redis_get_value(redis, key, now) =
                 (IF now < stored[key].at + stored[key].timeout[1]
                  THEN stored[key].value ELSE None)

\* one instance holds two values written at the same instant under two
\* different lifetimes, the lifetime having been changed between the writes
C15_Witness ==
    /\ app = "session"
    /\ DOMAIN svc._storage = UnitKeys
    /\ \E k1, k2 \in UnitKeys :
          /\ stored[k1].at = stored[k2].at
          /\ stored[k1].timeout = Secs(300)
          /\ stored[k2].timeout = Secs(600)
          /\ svc._expirations[k2] = svc._expirations[k1] + 300
    /\ now > 0

\* the well-formed tokens a platform answers the login of state s with:
\* signed, current, carrying the nonce of the login and a deployment of the
\* registration
MatchingTokens(s) ==
    {Token(s, "RS256", TRUE, TRUE, d, m) : d \in deployment_ids, m \in MessageTypes}

EntriesOf(config, iss) == {config[iss][i] : i \in 1..Len(config[iss])}

SharedRead(shared, key) == SimpleCache_get(SharedAfterInit(shared)[1], key, now)

\* a step of an instance constructed without a cache argument works on
\* the one shared SimpleCache: what it sets, the next such instance reads;
\* what it gets is what the shared SimpleCache held; the explicit cache is
\* untouched.  A step of an instance constructed with a cache works on
\* that cache alone and the shared SimpleCache is untouched.
SharedOrExplicitStep ==
    (app = "cache" /\ lastResp'.op \in {"set", "get"}) =>
       \A key \in UnitKeys : lastResp'.key = key =>
         /\ lastResp'.which = "shared" =>
              /\ cache' = cache
              /\ shared_cache' # <<>>
              /\ lastResp'.op = "set" => SharedRead(shared_cache, key)' = lastResp'.result
              /\ (lastResp'.op = "get" /\ shared_cache # <<>>) =>
                    lastResp'.result = SimpleCache_get(shared_cache[1], key, now)
              /\ (lastResp'.op = "get" /\ shared_cache = <<>>) => lastResp'.result = None
         /\ lastResp'.which = "explicit" =>
              /\ shared_cache' = shared_cache
              /\ lastResp'.op = "set" =>
                    SimpleCache_get(cache', key, now) = lastResp'.result
              /\ lastResp'.op = "get" =>
                    lastResp'.result = SimpleCache_get(cache, key, now)

\* C19: all FastAPICacheDataStorage instances constructed without a cache
\* share one SimpleCache, and an instance constructed with a cache uses
\* that cache and neither reads nor writes the shared one.
C19_SharedCache == [][SharedOrExplicitStep]_vars

\* an instance without a cache argument read a value an earlier such
\* instance had written, while the explicit cache holds another value
\* under the same key
C19_Witness ==
    /\ app = "cache"
    /\ lastResp.op = "get" /\ lastResp.which = "shared"
    /\ lastResp.result \in UnitValues
    /\ lastResp.key \in DOMAIN cache._cache
    /\ cache._cache[lastResp.key] # lastResp.result

\* C20: once a launch data storage is installed on a FastAPISessionService
\* with set_data_storage, a value saved through the session service is
\* held by that storage, and a value read through the session service is
\* the one that storage holds.
C20_RoutedToDataStorage ==
    (app = "session" /\ svc.data_storage = LaunchDataStorage) =>
       /\ lastResp.op = "set" =>
             SimpleCache_get(cache, lastResp.key, now) = lastResp.result
       /\ lastResp.op = "get" =>
             lastResp.result = SimpleCache_get(cache, lastResp.key, now)

\* C21: the shared cache is created at most once per process.  Of the
\* FastAPICacheDataStorage() instances whose constructors have finished,
\* all hold the same SimpleCache, and it is the one the process global
\* refers to.
C21_CreatedOnce ==
    app = "cache" =>
       \A t \in Threads :
          ctor.inst[t].pc = "done" =>
             /\ ctor.inst[t]._cache = ctor._shared_cache
             /\ \A u \in Threads :
                   ctor.inst[u].pc = "done" => ctor.inst[u]._cache = ctor.inst[t]._cache

\* C22: a SimpleCache.set with timeout None or 0 stores the entry without
\* expiration, whatever expiration an earlier set gave the key: get returns
\* it at every later time until it is deleted, cleared or overwritten.  A
\* set with a non-zero timeout T makes the entry expire T seconds after
\* that set: get returns it up to that instant and None after it.  A key
\* deleted, cleared or never set reads as None.
C22_NoTimeoutNoExpiry ==
    app = "cache" =>
       \A key \in UnitKeys :
          IF key \notin DOMAIN stored THEN SimpleCache_get(cache, key, now) = None
          ELSE IF ~Truthy(stored[key].timeout)
          THEN /\ SimpleCache_get(cache, key, now) = stored[key].value
               /\ key \notin DOMAIN cache._expires
          ELSE SimpleCache_get(cache, key, now) =
                  (IF now <= stored[key].at + stored[key].timeout[1]
                   THEN stored[key].value ELSE None)

\* at the last instant of the clock a get returned a value set at the
\* first instant with timeout 0, while the other key, set at the first
\* instant with a timeout, has expired
C22_Witness ==
    /\ app = "cache"
    /\ now = MaxTime
    /\ lastResp.op = "get" /\ lastResp.which = "explicit"
    /\ lastResp.result \in UnitValues
    /\ stored[lastResp.key].at = 0
    /\ stored[lastResp.key].timeout = Secs(0)
    /\ \E k \in DOMAIN stored :
          /\ Truthy(stored[k].timeout) /\ stored[k].at = 0
          /\ SimpleCache_get(cache, k, now) = None

\* the SimpleCache objects the components hold
Caches == {cache} \cup {shared_cache[i] : i \in DOMAIN shared_cache}

\* C23: after any sequence of set, get, delete and clear on a SimpleCache,
\* with time moving forward, every key with an expiration has a value, and
\* what get returns is never a value whose expiration lies before the
\* current time: a value a get has just returned was set without timeout
\* or with one that has not run out.
C23_ExpiresSubsetOfCache ==
    /\ \A c \in Caches :
          /\ DOMAIN c._expires \subseteq DOMAIN c._cache
          /\ \A key \in DOMAIN c._expires :
                c._expires[key] < now => SimpleCache_get(c, key, now) = None
    /\ (app = "cache" /\ lastResp.op = "get" /\ lastResp.which = "explicit"
          /\ lastResp.result # None) =>
          /\ lastResp.key \in DOMAIN stored
          /\ lastResp.result = stored[lastResp.key].value
          /\ Truthy(stored[lastResp.key].timeout) =>
                now <= stored[lastResp.key].at + stored[lastResp.key].timeout[1]

\* a get has just removed an expired entry while the other key, set with a
\* timeout that has not run out, keeps its value and its expiration
C23_Witness ==
    /\ app = "cache"
    /\ lastResp.op = "get" /\ lastResp.which = "explicit" /\ lastResp.result = None
    /\ lastResp.key \in DOMAIN stored
    /\ Truthy(stored[lastResp.key].timeout)
    /\ now > stored[lastResp.key].at + stored[lastResp.key].timeout[1]
    /\ lastResp.key \notin DOMAIN cache._cache
    /\ DOMAIN cache._expires # {}

\* a delete of key removes the value and the expiration of key and leaves
\* every other key as it was; when key read as None before (never set,
\* deleted or expired), every key reads after the delete as it did before,
\* and when key was not held at all the cache is unchanged; a second delete
\* changes nothing
DeleteStep ==
    (app = "cache" /\ lastResp'.op = "delete") =>
       \A key \in UnitKeys : lastResp'.key = key =>
          /\ DOMAIN cache'._cache = (DOMAIN cache._cache) \ {key}
          /\ DOMAIN cache'._expires = (DOMAIN cache._expires) \ {key}
          /\ \A k \in DOMAIN cache'._cache : cache'._cache[k] = cache._cache[k]
          /\ \A k \in DOMAIN cache'._expires : cache'._expires[k] = cache._expires[k]
          /\ SimpleCache_get(cache, key, now) = None =>
                \A k \in UnitKeys :
                   SimpleCache_get(cache', k, now) = SimpleCache_get(cache, k, now)
          /\ key \notin DOMAIN cache._cache => cache' = cache
          /\ SimpleCache_delete(cache', key) = cache'
          /\ shared_cache' = shared_cache

\* C24: SimpleCache.delete(k) removes the value and the expiration of k
\* and leaves every other key unchanged; deleting an absent key changes
\* nothing, so delete is idempotent.
C24_DeleteFrame == [][DeleteStep]_vars

\* a key was deleted while the other key holds a value with an expiration
C24_Witness ==
    /\ app = "cache"
    /\ lastResp.op = "delete"
    /\ lastResp.key \notin DOMAIN cache._cache
    /\ DOMAIN cache._cache # {}
    /\ DOMAIN cache._expires = DOMAIN cache._cache
    /\ now > 0

\* C25: after every _set_value or _get_value on a FastAPISessionService the
\* stored keys and the keys with an expiration are the same set and no
\* stored key has an expiration earlier than the time of the call; a
\* _get_value returns the last value the instance set for the key if it
\* has not expired and None otherwise; an expired key is purged by the
\* access to any other key.
C25_CleanupOnAccess ==
    (app = "session" /\ lastResp.op \in {"set", "get"}) =>
       /\ DOMAIN svc._storage = DOMAIN svc._expirations
       /\ \A k \in DOMAIN svc._storage : svc._expirations[k] >= now
       /\ \A k \in DOMAIN stored :
             (stored[k].req = 0 /\ now > stored[k].at + stored[k].timeout[1])
                => k \notin DOMAIN svc._storage \cup DOMAIN svc._expirations
       /\ lastResp.op = "get" =>
             lastResp.result =
                (IF /\ lastResp.key \in DOMAIN stored
                    /\ stored[lastResp.key].req = 0
                    /\ now <= stored[lastResp.key].at + stored[lastResp.key].timeout[1]
                 THEN stored[lastResp.key].value ELSE None)

\* a read of one key returned its value and purged the other key, which
\* the same instance had set and which has expired
C25_Witness ==
    /\ app = "session"
    /\ lastResp.op = "get" /\ lastResp.result \in UnitValues
    /\ \E k \in DOMAIN stored :
          /\ k # lastResp.key
          /\ stored[k].req = 0
          /\ now > stored[k].at + stored[k].timeout[1]
          /\ k \notin DOMAIN svc._storage

\* C26: cookie key round trip.  A cookie recorded with set_cookie(name, v)
\* is emitted under the key cookie prefix + "-" + name, and when the client
\* sends the cookies of that response back, get_cookie(name) of the later
\* request returns v; a name the response set no cookie for reads as None,
\* whatever cookies the client holds under other names, under the bare
\* name or under another prefix.
C26_CookieRoundTrip ==
    app = "cookie" =>
       /\ \A name \in CookieNames :
             LET key == CookiePrefix \o "-" \o name IN
             /\ (lastResp.op = "set_cookie" /\ lastResp.name = name) =>
                   /\ key \in DOMAIN web._cookies_to_set
                   /\ web._cookies_to_set[key].value = lastResp.value
             /\ web.answered =>
                   (key \in DOMAIN web.response <=> key \in DOMAIN web._cookies_to_set)
             /\ (web.answered /\ key \in DOMAIN web._cookies_to_set) =>
                   /\ web.response[key].key = key
                   /\ web.response[key].value = web._cookies_to_set[key].value
             /\ ~web.answered =>
                   get_cookie(web.request, name) =
                      (IF key \in DOMAIN web.response
                       THEN Str(web.response[key].value) ELSE Absent)
       /\ lastResp.op = "get_cookie" =>
             /\ lastResp.result = get_cookie(web.request, lastResp.name)
             /\ lastResp.result # Str("foreign")

\* a later request read back the value the last response had set for one
\* name, the other name having no cookie, while the client also holds
\* foreign cookies
C26_Witness ==
    /\ app = "cookie"
    /\ ~web.answered
    /\ lastResp.op = "get_cookie" /\ lastResp.name = "state"
    /\ lastResp.result = Str("v2")
    /\ DOMAIN web.response = {"lti1p3-state"}
    /\ web.request.cookies["state"] = "foreign"
    /\ get_cookie(web.request, "nonce") = Absent

\* C27: update_response emits every cookie recorded by set_cookie, one per
\* name, with the value and max_age of the last set_cookie for that name,
\* httponly=True and path='/', secure=True exactly when the URL scheme of
\* the request is https, and samesite='None' exactly when it is https,
\* unless an extra keyword argument of set_cookie gives the attribute; a
\* redirect response and an HTML response get the same cookies.
C27_EmittedCookies ==
    app = "cookie" =>
       /\ lastResp.op = "set_cookie" =>
             LET key == CookiePrefix \o "-" \o lastResp.name IN
             /\ key \in DOMAIN web._cookies_to_set
             /\ web._cookies_to_set[key].value = lastResp.value
             /\ web._cookies_to_set[key].max_age = lastResp.max_age
       /\ web.answered =>
             /\ DOMAIN web.response = DOMAIN web._cookies_to_set
             /\ \A key \in DOMAIN web.response :
                   LET c == web.response[key]
                       d == web._cookies_to_set[key]
                       https == (web.request.url.scheme = "https")
                   IN /\ c.key = key
                      /\ c.value = d.value
                      /\ c.max_age = d.max_age
                      /\ c.httponly = TRUE
                      /\ c.path = "/"
                      /\ c.secure = https
                      /\ IF "samesite" \in DOMAIN d
                         THEN c.samesite = d.samesite
                         ELSE /\ "samesite" \in DOMAIN c <=> https
                              /\ https => c.samesite = "None"
       /\ lastResp.op = "update_response" =>
             /\ lastResp.kind \in {"RedirectResponse", "HTMLResponse"}
             /\ lastResp.cookies = web.response

\* an HTML response over https carries both cookies: one with the value of
\* the second set_cookie for its name and samesite 'None', one with the
\* samesite its set_cookie gave
C27_Witness ==
    /\ app = "cookie"
    /\ web.answered
    /\ lastResp.op = "update_response" /\ lastResp.kind = "HTMLResponse"
    /\ web.request.url.scheme = "https"
    /\ DOMAIN web.response = {"lti1p3-state", "lti1p3-nonce"}
    /\ web.response["lti1p3-state"].samesite = "None"
    /\ web.response["lti1p3-state"].secure
    /\ web.response["lti1p3-nonce"].samesite = "Lax"

\* C28: whenever is_secure() reports the request as secure (URL scheme
\* https, X-Forwarded-Proto: https or X-Forwarded-Ssl: on), the cookies
\* update_response emits for that request carry secure=True and
\* samesite='None' (where set_cookie gave no samesite of its own).
C28_SecureBehindProxy ==
    (app = "cookie" /\ web.answered /\ is_secure(web.request)) =>
       \A key \in DOMAIN web.response :
          "samesite" \notin DOMAIN web._cookies_to_set[key] =>
             /\ web.response[key].secure
             /\ "samesite" \in DOMAIN web.response[key]
             /\ web.response[key].samesite = "None"

\* C29: get_param(key) takes a parameter from exactly one place chosen by
\* the HTTP method: the query parameters for GET (None when absent), the
\* supplied form data for every other method; a parameter present only in
\* the query string of a POST, or only in the form data of a GET, is not
\* returned.  The login handler takes iss from the query parameters of a
\* GET and from the form fields of a POST.
C29_ParamSource ==
    app = "request" =>
       /\ lastResp.op = "get_param" =>
             LET r == web.request
                 key == lastResp.key
             IN /\ r.method = "GET" =>
                      lastResp.result =
                         (IF key \in DOMAIN r.query_params
                          THEN Str(r.query_params[key]) ELSE Absent)
                /\ r.method # "GET" =>
                      lastResp.result =
                         (IF key \in DOMAIN r.form_data
                          THEN Str(r.form_data[key]) ELSE Absent)
       /\ lastResp.op = "login_request" =>
             /\ lastResp.method = "GET" =>
                   lastResp.iss = (IF "iss" \in DOMAIN lastResp.query
                                   THEN Str(lastResp.query["iss"]) ELSE Absent)
             /\ lastResp.method = "POST" =>
                   lastResp.iss = (IF "iss" \in DOMAIN lastResp.form
                                   THEN Str(lastResp.form["iss"]) ELSE Absent)

\* a POST whose query string carries a parameter its form lacks was asked
\* for that parameter and returned None
C29_Witness ==
    /\ app = "request"
    /\ lastResp.op = "get_param" /\ lastResp.key = "iss"
    /\ web.request.method = "POST"
    /\ "iss" \in DOMAIN web.request.query_params
    /\ "iss" \notin DOMAIN web.request.form_data
    /\ lastResp.result = Absent

====
